---------------------------- MODULE Spec2Model ----------------------------
(***************************************************************************)
(* Thumbnail gallery: the Home component and its document store.           *)
(*                                                                         *)
(* Two revisions of the Home component that talk to the store are in the   *)
(* repository: src/unnamed/part_001 lines 1-604 (upload with a size gate,  *)
(* edit, delete) and src/src/app/page.tsx (upload only, no size gate).     *)
(* The variable `page` says which of the two is mounted.                   *)
(*                                                                         *)
(* A handler of the component is an async function: it runs up to its next *)
(* await in one step, and its continuation runs in a later step.  The      *)
(* `thumbnails` a handler reads is the one of the render that created the  *)
(* handler (a closure), so a continuation sees the list as it was when the *)
(* handler was started: the field `snap` of a request.                     *)
(***************************************************************************)
EXTENDS Integers, Sequences, FiniteSets, TLC

(* ------------------------------ bounds -------------------------------- *)

\* Number of create / update / delete submissions that start a handler.
MaxRequests == 2

\* The two revisions of the component.
Pages == {"part_001", "page.tsx"}

\* Search terms a user types.
SearchTerms == { <<>>, <<"B", "A">> }

\* The category buttons pressed (a subset of the items of `categories`).
FilterCategories == {"All", "Gaming"}

\* "no category selected": the form value is undefined.
Undefined == "undefined"

\* "no file selected / no editing target".
Null == [null |-> TRUE]

(* --------------------------- program constants ------------------------ *)

MAX_DOC_SIZE_BYTES == 1048487

\* MAX_IMAGE_FILE_SIZE_MB is 0.7; kept in tenths to stay in the integers.
MAX_IMAGE_FILE_SIZE_MB_x10 == 7

\* A limit of 1 MB on the file, the figure the gate's message speaks of.
MAX_IMAGE_FILE_SIZE_BYTES_OneMB_x10 == 10 * 1024 * 1024

\* MAX_IMAGE_FILE_SIZE_MB * 1024 * 1024 = 734003.2, times ten.
MAX_IMAGE_FILE_SIZE_BYTES_x10 == MAX_IMAGE_FILE_SIZE_MB_x10 * 1024 * 1024

categories ==
    <<"All", "Gaming", "Vlog", "Tutorial", "Lifestyle", "Tech", "Cooking", "Education">>

\* The items of a category Select that offers the filter values as they are.
allCategories == categories

\* categories.filter(c => c !== 'All'): the items of the category Select of
\* the upload form and of the edit form.
selectableCategories ==
    LET notAll(c) == c # "All"
    IN  SelectSeq(categories, notAll)

\* z.string().min(3)
MinTitleLen == 3

(* ------------------------------- files -------------------------------- *)

\* A selected File: its size in bytes, its MIME type, and whether the
\* FileReader can read it.
Files ==
    { [size |-> 3,      type |-> "image/png", readable |-> TRUE],
      [size |-> 734003, type |-> "image/png", readable |-> TRUE],
      [size |-> 734004, type |-> "image/png", readable |-> TRUE],
      [size |-> 786400, type |-> "image/png", readable |-> TRUE],
      [size |-> 3,      type |-> "image/png", readable |-> FALSE] }

\* reader.readAsDataURL: "data:<type>;base64,<payload>", the payload being
\* 4 characters for every 3 bytes, padded.  The URI is kept as its MIME type
\* and the length of its payload.
toBase64(file) ==
    [type |-> file.type, payload |-> 4 * ((file.size + 2) \div 3)]

\* new Blob([str]).size: the URI is ASCII, one byte per character.
getByteLength(uri) == Len("data:") + Len(uri.type) + Len(";base64,") + uri.payload


(* ------------------------------ strings ------------------------------- *)

\* One character of String.prototype.toLowerCase.
LowerChar(c) ==
    CASE c = "A" -> "a"
      [] c = "B" -> "b"
      [] OTHER   -> c

\* String.prototype.toLowerCase
toLowerCase(s) == [i \in 1..Len(s) |-> LowerChar(s[i])]

\* includes that finds no empty string.
includesNonEmpty(s, t) ==
    \E i \in 0..(Len(s) - Len(t)) : t # <<>> /\ SubSeq(s, i + 1, i + Len(t)) = t

\* String.prototype.includes: t occurs in s as a contiguous substring.
includes(s, t) ==
    \E i \in 0..(Len(s) - Len(t)) : SubSeq(s, i + 1, i + Len(t)) = t

(* --------------------------- filter / search -------------------------- *)

\* FilterList with the two predicates joined by "or": a record is kept when
\* either holds.
FilterListEither(list, category, term) ==
    LET either(thumb) ==
            \/ category = "All" \/ thumb.category = category
            \/ \E i \in 0..(Len(thumb.title) - Len(term)) :
                  SubSeq([k \in 1..Len(thumb.title) |-> LowerChar(thumb.title[k])],
                         i + 1, i + Len(term))
                  = [k \in 1..Len(term) |-> LowerChar(term[k])]
    IN  SelectSeq(list, either)

\* thumbnails.filter(category).filter(title), for any list.
FilterList(list, category, term) ==
    LET byCategory(thumb) == category = "All" \/ thumb.category = category
        byTitle(thumb)    == includes(toLowerCase(thumb.title), toLowerCase(term))
    IN  SelectSeq(SelectSeq(list, byCategory), byTitle)

(* ------------------------------- store -------------------------------- *)

\* Documents that were in the collection before the session started.
InitialDocs ==
    { [id |-> 1, title |-> <<"A", "b", "a">>, category |-> "Gaming",
       imageUrl |-> [type |-> "image/png", payload |-> 4], createdAt |-> 1],
      [id |-> 2, title |-> <<"a", "a", "b">>, category |-> "Vlog",
       imageUrl |-> [type |-> "image/png", payload |-> 4], createdAt |-> 2] }

\* The document of a set with the least createdAt: an ascending query.
Oldest(docs) ==
    CHOOSE d \in docs :
        \A e \in docs :
            \/ e.createdAt > d.createdAt
            \/ e.createdAt = d.createdAt /\ e.id >= d.id

\* The document of a set with the greatest createdAt (the greatest id on a tie).
Newest(docs) ==
    CHOOSE d \in docs :
        \A e \in docs :
            \/ e.createdAt < d.createdAt
            \/ e.createdAt = d.createdAt /\ e.id <= d.id

\* query(collection, orderBy("createdAt", "desc")): newest first.
RECURSIVE OrderByCreatedAtDesc(_)
OrderByCreatedAtDesc(docs) ==
    IF docs = {} THEN <<>>
    ELSE LET d == Newest(docs)
         IN  <<d>> \o OrderByCreatedAtDesc(docs \ {d})

\* An error value: whether it is an instance of Error, and its message, a
\* sequence of pieces of text.
Error(message) == [isError |-> TRUE, message |-> message]

\* The errors a rejected store call throws.
StoreErrors ==
    { Error(<<"Missing or insufficient permissions.">>),
      Error(<<"Firestore", " is unavailable.">>),
      Error(<<"Firestore", ": the document is ", "too large", ".">>) }

(* -------------------------------- state ------------------------------- *)

VARIABLES
    page,                \* which revision of Home is mounted
    load,                \* where fetchThumbnails is, and the documents it got
    store,               \* the documents of the "thumbnails" collection
    nextId,              \* the id the store gives to the next insert
    now,                 \* the client's clock (new Date())
    storeCalls,          \* number of store calls the client has issued
    thumbnails,          \* useState<Thumbnail[]>: the in-memory list
    activeCategory,      \* useState("All")
    searchTerm,          \* useState("")
    isUploadDialogOpen,  \* useState(false)  (isDialogOpen in page.tsx)
    isEditDialogOpen,    \* useState(false)
    editingThumbnail,    \* useState<Thumbnail | null>(null)
    isUploading,         \* useState(false)
    uploadProgress,      \* useState(0)
    requests,            \* the handlers that are suspended at an await
    started,             \* number of handlers started by the user so far
    toasts               \* the notifications raised by the step just taken

vars ==
    << page, load, store, nextId, now, storeCalls, thumbnails, activeCategory, searchTerm,
       isUploadDialogOpen, isEditDialogOpen, editingThumbnail, isUploading,
       uploadProgress, requests, started, toasts >>

\* The variables no handler of the list touches when only view state changes.
storeVars == << store, nextId, now, storeCalls >>
dialogVars == << isUploadDialogOpen, isEditDialogOpen, editingThumbnail >>
uploadVars == << isUploading, uploadProgress >>
filterVars == << activeCategory, searchTerm >>

\* A suspended handler.  kind: create, update, delete.  phase: reading
\* (awaiting toBase64), sent (awaiting the store call), ok / err (the store
\* has answered, the continuation has not run yet; the error a rejected
\* call throws is seen when the continuation catches it).
Request(rid, kind, phase, snap) ==
    [rid |-> rid, kind |-> kind, phase |-> phase, snap |-> snap,
     id |-> 0, title |-> <<>>, category |-> Undefined, file |-> Null,
     imageUrl |-> Null, createdAt |-> 0]

Toast(title, description) == [title |-> title, description |-> description]

\* A step that raises no notification.
Quiet == toasts' = <<>>

\* toast({ title, description })
Raise(title, description) ==
    toasts' = << Toast(title, description) >>

\* useMemo(() => thumbnails.filter(...).filter(...))
filteredThumbnails == FilterList(thumbnails, activeCategory, searchTerm)

Init ==
    /\ page \in Pages
    /\ store = InitialDocs
    /\ nextId = 3
    /\ now = 3
    /\ storeCalls = 1
    /\ thumbnails = <<>>
    /\ activeCategory = "All"
    /\ searchTerm = <<>>
    /\ isUploadDialogOpen = FALSE
    /\ isEditDialogOpen = FALSE
    /\ editingThumbnail = Null
    /\ isUploading = FALSE
    /\ uploadProgress = 0
    /\ load = [phase |-> "sent", docs |-> <<>>]
    /\ requests = {}
    /\ started = 0
    /\ toasts = <<>>


(* ----------------------------- validation ----------------------------- *)

\* The schema without the refinement on the size of the file.
uploadSchemaNoSizeLimit(values) ==
    (IF Len(values.title) >= MinTitleLen THEN {} ELSE {"title"})
    \cup (IF values.category # Undefined THEN {} ELSE {"category"})
    \cup (IF Len(values.image) = 1 THEN {} ELSE {"image"})

\* zodResolver(uploadSchema): the fields that fail.  Only part_001 has the
\* second refinement of image, files[0].size <= MAX_IMAGE_FILE_SIZE_BYTES.
uploadSchema(values) ==
    (IF Len(values.title) >= MinTitleLen THEN {} ELSE {"title"})
    \cup (IF values.category # Undefined THEN {} ELSE {"category"})
    \cup (IF /\ Len(values.image) = 1
             /\ \/ page = "page.tsx"
                \/ values.image[1].size * 10 <= MAX_IMAGE_FILE_SIZE_BYTES_x10
          THEN {} ELSE {"image"})

\* String.prototype.trim: the string without its leading and trailing spaces.
RECURSIVE trim(_)
trim(s) ==
    IF s = <<>> THEN s
    ELSE IF Head(s) = " " THEN trim(Tail(s))
    ELSE IF s[Len(s)] = " " THEN trim(SubSeq(s, 1, Len(s) - 1))
    ELSE s

\* A schema that counts the characters of the trimmed title.
editSchemaTrimmed(values) ==
    (IF Len(trim(values.title)) >= MinTitleLen THEN {} ELSE {"title"})
    \cup (IF values.category # Undefined THEN {} ELSE {"category"})

\* zodResolver(editSchema)
editSchema(values) ==
    (IF Len(values.title) >= MinTitleLen THEN {} ELSE {"title"})
    \cup (IF values.category # Undefined THEN {} ELSE {"category"})

(* ------------------------------ view state ---------------------------- *)

\* The operations of the session are over: the bound on started handlers.
CanStart == started < MaxRequests

Starts == started' = started + 1

setSearchTerm(term) ==
    /\ searchTerm' = term
    /\ Quiet
    /\ UNCHANGED << page, load, storeVars, thumbnails, activeCategory, dialogVars,
                    uploadVars, requests, started >>

\* A category button that keeps only the records of the category in the list.
setActiveCategoryFilteringList(category) ==
    /\ activeCategory' = category
    /\ thumbnails' = FilterList(thumbnails, category, <<>>)
    /\ Quiet
    /\ UNCHANGED << page, load, storeVars, searchTerm, dialogVars,
                    uploadVars, requests, started >>

\* <Button onClick={() => setActiveCategory(category)}>
setActiveCategory(category) ==
    /\ activeCategory' = category
    /\ Quiet
    /\ UNCHANGED << page, load, storeVars, thumbnails, searchTerm, dialogVars,
                    uploadVars, requests, started >>

\* Dialog onOpenChange(true)
openUploadDialog ==
    /\ ~isUploadDialogOpen
    /\ isUploadDialogOpen' = TRUE
    /\ Quiet
    /\ UNCHANGED << page, load, storeVars, thumbnails, filterVars, isEditDialogOpen,
                    editingThumbnail, uploadVars, requests, started >>

\* What handleUploadDialogClose assigns (the form's own state is not kept).
UploadDialogClosed == isUploadDialogOpen' = FALSE

\* A close of the upload dialog that drops the create in flight.
handleUploadDialogCloseAborting ==
    /\ isUploadDialogOpen
    /\ UploadDialogClosed
    /\ requests' = { r \in requests : r.kind # "create" }
    /\ Quiet
    /\ UNCHANGED << page, load, storeVars, thumbnails, filterVars, isEditDialogOpen,
                    editingThumbnail, uploadVars, started >>

\* Dialog onOpenChange(false)
handleUploadDialogClose ==
    /\ isUploadDialogOpen
    /\ UploadDialogClosed
    /\ Quiet
    /\ UNCHANGED << page, load, storeVars, thumbnails, filterVars, isEditDialogOpen,
                    editingThumbnail, uploadVars, requests, started >>

handleEditDialogOpen(thumbnail) ==
    /\ page = "part_001"
    /\ editingThumbnail' = thumbnail
    /\ isEditDialogOpen' = TRUE
    /\ Quiet
    /\ UNCHANGED << page, load, storeVars, thumbnails, filterVars, isUploadDialogOpen,
                    uploadVars, requests, started >>

\* What handleEditDialogClose assigns.
EditDialogClosed ==
    /\ isEditDialogOpen' = FALSE
    /\ editingThumbnail' = Null

\* Dialog onOpenChange(false)
handleEditDialogClose ==
    /\ isEditDialogOpen
    /\ EditDialogClosed
    /\ Quiet
    /\ UNCHANGED << page, load, storeVars, thumbnails, filterVars, isUploadDialogOpen,
                    uploadVars, requests, started >>


(* -------------------------------- load -------------------------------- *)

\* fetchThumbnails is mounted with the component: load.phase is sent while
\* it awaits getDocs, ok / err once the store has answered, and done / failed
\* once its continuation has run.

\* The store answers the query of fetchThumbnails.
getDocs ==
    /\ load.phase = "sent"
    /\ \/ load' = [phase |-> "ok", docs |-> OrderByCreatedAtDesc(store)]
       \/ load' = [phase |-> "err", docs |-> <<>>]
    /\ Quiet
    /\ UNCHANGED << page, storeVars, thumbnails, filterVars, dialogVars,
                    uploadVars, requests, started >>

\* A fetchThumbnails that issues the query again when it has failed.
fetchThumbnailsRetrying ==
    /\ load.phase \in {"ok", "err"}
    /\ IF load.phase = "ok"
       THEN /\ thumbnails' = load.docs
            /\ load' = [phase |-> "done", docs |-> <<>>]
            /\ Quiet
            /\ UNCHANGED storeVars
       ELSE /\ thumbnails' = thumbnails
            /\ load' = [phase |-> "sent", docs |-> <<>>]
            /\ storeCalls' = storeCalls + 1
            /\ Raise("Loading Failed",
                   <<"Could not fetch thumbnails. Make sure Firestore is set up correctly.">>)
            /\ UNCHANGED << store, nextId, now >>
    /\ UNCHANGED << page, filterVars, dialogVars, uploadVars, requests, started >>

\* A fetchThumbnails that puts the fetched records in front of the list
\* instead of replacing it.
fetchThumbnailsMerging ==
    /\ load.phase \in {"ok", "err"}
    /\ IF load.phase = "ok"
       THEN /\ thumbnails' = load.docs \o thumbnails
            /\ load' = [phase |-> "done", docs |-> <<>>]
            /\ Quiet
       ELSE /\ thumbnails' = thumbnails
            /\ load' = [phase |-> "failed", docs |-> <<>>]
            /\ Raise("Loading Failed",
                   <<"Could not fetch thumbnails. Make sure Firestore is set up correctly.">>)
    /\ UNCHANGED << page, storeVars, filterVars, dialogVars, uploadVars,
                    requests, started >>

\* fetchThumbnails after await getDocs(q).
fetchThumbnails ==
    /\ load.phase \in {"ok", "err"}
    /\ IF load.phase = "ok"
       THEN /\ thumbnails' = load.docs
            /\ load' = [phase |-> "done", docs |-> <<>>]
            /\ Quiet
       ELSE /\ thumbnails' = thumbnails
            /\ load' = [phase |-> "failed", docs |-> <<>>]
            /\ Raise("Loading Failed",
                   <<"Could not fetch thumbnails. Make sure Firestore is set up correctly.">>)
    /\ UNCHANGED << page, storeVars, filterVars, dialogVars, uploadVars,
                    requests, started >>

\* The request r, changed, in place of r.
Replace(r, q) == (requests \ {r}) \cup {q}

(* ------------------------------- create ------------------------------- *)

TooLargeError ==
    Error(<<"The selected image is ", "too large",
            " (over 1MB after encoding). Please choose a smaller file.">>)

\* reader.onerror rejects with the event, which is no Error.
ReadError == [isError |-> FALSE, message |-> <<>>]

\* String.prototype.toLowerCase on one piece of a message.
LowerPiece(w) == IF w = "Firestore" THEN "firestore" ELSE w

\* errorMessage.includes(piece)
MessageIncludes(message, piece) == \E i \in 1..Len(message) : message[i] = piece

\* A catch that looks for "firestore" first and for "too large" second.
UploadFailedDescriptionStoreFirst(error) ==
    LET errorMessage == IF error.isError THEN error.message
                        ELSE <<"An unknown error occurred.">>
        lowered == [i \in 1..Len(errorMessage) |-> LowerPiece(errorMessage[i])]
    IN  IF page = "part_001" /\ MessageIncludes(lowered, "firestore")
        THEN <<"Error communicating with the database. Please check your connection and Firestore setup.">>
        ELSE IF page = "part_001" /\ MessageIncludes(errorMessage, "too large")
        THEN errorMessage
        ELSE <<"There was an error uploading your thumbnail. Please try again.">>

\* The description of the "Upload Failed" toast (the catch of onUploadSubmit;
\* the catch of onSubmit in page.tsx always gives the generic one).
UploadFailedDescription(error) ==
    LET errorMessage == IF error.isError THEN error.message
                        ELSE <<"An unknown error occurred.">>
        lowered == [i \in 1..Len(errorMessage) |-> LowerPiece(errorMessage[i])]
    IN  IF page = "part_001" /\ MessageIncludes(errorMessage, "too large")
        THEN errorMessage
        ELSE IF page = "part_001" /\ MessageIncludes(lowered, "firestore")
        THEN <<"Error communicating with the database. Please check your connection and Firestore setup.">>
        ELSE <<"There was an error uploading your thumbnail. Please try again.">>

\* A catch that puts back the list the handler started from.
ListAfterUploadRolledBack(r) == r.snap

\* The list after the catch of onUploadSubmit, which does not set it.
ListAfterUploadFailed(r) == thumbnails

\* A catch with no finally: the flag and the progress bar are left as they are.
UploadFailedKeepsUploading(r, error) ==
    /\ requests' = requests \ {r}
    /\ Raise("Upload Failed", UploadFailedDescription(error))
    /\ UNCHANGED << isUploading, uploadProgress >>
    /\ thumbnails' = ListAfterUploadFailed(r)

\* catch and finally of onUploadSubmit.
UploadFailed(r, error) ==
    /\ requests' = requests \ {r}
    /\ Raise("Upload Failed", UploadFailedDescription(error))
    /\ isUploading' = FALSE
    /\ uploadProgress' = 0
    /\ thumbnails' = ListAfterUploadFailed(r)

\* onUploadSubmit up to await toBase64(file): `if (!file) return`, then the
\* handler is suspended with the list of the render it was created in.
onUploadSubmit(values) ==
    /\ Quiet
    /\ IF Len(values.image) = 0
       THEN UNCHANGED << requests, started, uploadVars >>
       ELSE /\ CanStart
            /\ Starts
            /\ isUploading' = TRUE
            /\ uploadProgress' = 30
            /\ requests' = requests \cup
                 { [Request(started + 1, "create", "reading", thumbnails)
                      EXCEPT !.title = values.title,
                             !.category = values.category,
                             !.file = values.image[1]] }
    /\ UNCHANGED << page, load, storeVars, thumbnails, filterVars, dialogVars >>

\* A submit button that stays enabled while isUploading.
uploadFormSubmitAlwaysEnabled(values) ==
    /\ isUploadDialogOpen
    /\ IF uploadSchema(values) # {}
       THEN /\ Quiet
            /\ UNCHANGED << page, load, storeVars, thumbnails, filterVars, dialogVars,
                            requests, started, uploadVars >>
       ELSE onUploadSubmit(values)

\* The submit button of the upload dialog, disabled while isUploading:
\* uploadForm.handleSubmit(onUploadSubmit) calls the handler when the
\* values pass uploadSchema, and only shows the field errors otherwise.
uploadFormSubmit(values) ==
    /\ isUploadDialogOpen
    /\ ~isUploading
    /\ IF uploadSchema(values) # {}
       THEN /\ Quiet
            /\ UNCHANGED << page, load, storeVars, thumbnails, filterVars, dialogVars,
                            requests, started, uploadVars >>
       ELSE onUploadSubmit(values)

\* A gate that also refuses a data URI of exactly MAX_DOC_SIZE_BYTES bytes.
exceedsDocSizeFromCeiling(imageDataUrl) ==
    getByteLength(imageDataUrl) >= MAX_DOC_SIZE_BYTES

\* if (getByteLength(imageDataUrl) > MAX_DOC_SIZE_BYTES) throw ...
exceedsDocSize(imageDataUrl) ==
    getByteLength(imageDataUrl) > MAX_DOC_SIZE_BYTES

\* onUploadSubmit from the result of toBase64 up to await addDoc(...).
onUploadSubmitEncoded(r) ==
    /\ r.kind = "create" /\ r.phase = "reading"
    /\ IF ~r.file.readable
       THEN /\ UploadFailed(r, ReadError)
            /\ UNCHANGED storeVars
       ELSE IF page = "part_001" /\ exceedsDocSize(toBase64(r.file))
       THEN /\ UploadFailed(r, TooLargeError)
            /\ UNCHANGED storeVars
       ELSE /\ requests' = Replace(r, [r EXCEPT !.phase = "sent",
                                                !.imageUrl = toBase64(r.file),
                                                !.createdAt = now])
            /\ now' = now + 1
            /\ storeCalls' = storeCalls + 1
            /\ uploadProgress' = 80
            /\ Quiet
            /\ UNCHANGED << store, nextId, thumbnails, isUploading >>
    /\ UNCHANGED << page, load, filterVars, dialogVars, started >>

\* The store answers addDoc: it keeps the document under a fresh id, or rejects.
addDoc(r) ==
    /\ r.kind = "create" /\ r.phase = "sent"
    /\ \/ /\ requests' = Replace(r, [r EXCEPT !.phase = "ok", !.id = nextId])
          /\ store' = store \cup
               { [id |-> nextId, title |-> r.title, category |-> r.category,
                  imageUrl |-> r.imageUrl, createdAt |-> r.createdAt] }
          /\ nextId' = nextId + 1
       \/ /\ requests' = Replace(r, [r EXCEPT !.phase = "err"])
          /\ UNCHANGED << store, nextId >>
    /\ Quiet
    /\ UNCHANGED << page, load, now, storeCalls, thumbnails, filterVars, dialogVars,
                    uploadVars, started >>

\* The new record put at the end of the list.
Appended(newThumbnail, list) == list \o <<newThumbnail>>

\* [newThumbnail, ...thumbnails], thumbnails being the list of the render
\* that created the handler.
Prepended(newThumbnail, list) == <<newThumbnail>> \o list

\* onUploadSubmit after await addDoc(...).
onUploadSubmitDone(r) ==
    /\ r.kind = "create" /\ r.phase \in {"ok", "err"}
    /\ IF r.phase = "ok"
       THEN /\ thumbnails' = Prepended(
                   [id |-> r.id, title |-> r.title, category |-> r.category,
                    imageUrl |-> r.imageUrl, createdAt |-> r.createdAt], r.snap)
            /\ requests' = requests \ {r}
            /\ Raise("Success!", <<"Thumbnail has been added.">>)
            /\ UploadDialogClosed
            /\ isUploading' = FALSE
            /\ uploadProgress' = 0
       ELSE /\ \E error \in StoreErrors : UploadFailed(r, error)
            /\ UNCHANGED isUploadDialogOpen
    /\ UNCHANGED << page, load, storeVars, filterVars, isEditDialogOpen, editingThumbnail, started >>


(* ------------------------------- delete ------------------------------- *)

\* A handleDelete that removes the record from the list before the store
\* has answered.
handleDeleteOptimistic(thumbnailId) ==
    /\ page = "part_001"
    /\ CanStart
    /\ Starts
    /\ requests' = requests \cup
         { [Request(started + 1, "delete", "sent", thumbnails) EXCEPT !.id = thumbnailId] }
    /\ storeCalls' = storeCalls + 1
    /\ thumbnails' = SelectSeq(thumbnails, LAMBDA t : t.id # thumbnailId)
    /\ Quiet
    /\ UNCHANGED << page, load, store, nextId, now, filterVars, dialogVars, uploadVars >>

\* handleDelete up to await deleteDoc(...): the AlertDialogAction of a card.
handleDelete(thumbnailId) ==
    /\ page = "part_001"
    /\ CanStart
    /\ Starts
    /\ requests' = requests \cup
         { [Request(started + 1, "delete", "sent", thumbnails) EXCEPT !.id = thumbnailId] }
    /\ storeCalls' = storeCalls + 1
    /\ Quiet
    /\ UNCHANGED << page, load, store, nextId, now, thumbnails, filterVars, dialogVars,
                    uploadVars >>

\* The store answers deleteDoc: the document is gone (it may have been gone
\* already), or the call is rejected.
deleteDoc(r) ==
    /\ r.kind = "delete" /\ r.phase = "sent"
    /\ \/ /\ requests' = Replace(r, [r EXCEPT !.phase = "ok"])
          /\ store' = { d \in store : d.id # r.id }
       \/ /\ requests' = Replace(r, [r EXCEPT !.phase = "err"])
          /\ store' = store
    /\ Quiet
    /\ UNCHANGED << page, load, nextId, now, storeCalls, thumbnails, filterVars, dialogVars,
                    uploadVars, started >>

\* thumbnails.filter((t) => t.id !== thumbnailId)
Without(list, thumbnailId) ==
    LET keep(t) == t.id # thumbnailId
    IN  SelectSeq(list, keep)

\* A handleDelete that sets the list whatever the store answered.
ListAfterDeleteAnyAnswer(r) == Without(r.snap, r.id)

\* The list after handleDelete: set after the await, left alone in the catch.
ListAfterDelete(r) ==
    IF r.phase = "ok" THEN Without(r.snap, r.id) ELSE thumbnails

\* handleDelete after await deleteDoc(...).
handleDeleteDone(r) ==
    /\ r.kind = "delete" /\ r.phase \in {"ok", "err"}
    /\ requests' = requests \ {r}
    /\ thumbnails' = ListAfterDelete(r)
    /\ IF r.phase = "ok"
       THEN Raise("Deleted!", <<"Thumbnail has been removed.">>)
       ELSE Raise("Delete Failed",
                   <<"There was an error deleting the thumbnail. Please try again.">>)
    /\ UNCHANGED << page, load, storeVars, filterVars, dialogVars, uploadVars, started >>

(* ------------------------------- update ------------------------------- *)

\* An onEditSubmit without `if (!editingThumbnail) return`: with no target
\* it sends an update for a document that does not exist.
onEditSubmitUnguarded(values) ==
    /\ page = "part_001"
    /\ Quiet
    /\ CanStart
    /\ Starts
    /\ requests' = requests \cup
         { [Request(started + 1, "update", "sent", thumbnails)
              EXCEPT !.id = IF editingThumbnail = Null THEN 0 ELSE editingThumbnail.id,
                     !.title = values.title,
                     !.category = values.category] }
    /\ storeCalls' = storeCalls + 1
    /\ UNCHANGED << page, load, store, nextId, now, thumbnails, filterVars, dialogVars,
                    uploadVars >>

\* onEditSubmit up to await updateDoc(...): `if (!editingThumbnail) return`,
\* then the update of title and category is sent.
onEditSubmit(values) ==
    /\ page = "part_001"
    /\ Quiet
    /\ IF editingThumbnail = Null
       THEN UNCHANGED << requests, started, storeCalls >>
       ELSE /\ CanStart
            /\ Starts
            /\ requests' = requests \cup
                 { [Request(started + 1, "update", "sent", thumbnails)
                      EXCEPT !.id = editingThumbnail.id,
                             !.title = values.title,
                             !.category = values.category] }
            /\ storeCalls' = storeCalls + 1
    /\ UNCHANGED << page, load, store, nextId, now, thumbnails, filterVars, dialogVars,
                    uploadVars >>

\* The "Save Changes" button of the edit dialog:
\* editForm.handleSubmit(onEditSubmit) calls the handler when the values pass
\* editSchema, and only shows the field errors otherwise.
editFormSubmit(values) ==
    /\ page = "part_001"
    /\ isEditDialogOpen
    /\ IF editSchema(values) # {}
       THEN /\ Quiet
            /\ UNCHANGED << page, load, storeVars, thumbnails, filterVars, dialogVars,
                            uploadVars, requests, started >>
       ELSE onEditSubmit(values)

\* A merge that also stamps the record with the time of the edit.
MergedWithDate(t, values) ==
    [t EXCEPT !.title = values.title, !.category = values.category, !.createdAt = now]

\* { ...t, ...values }: values has the keys of editSchema, title and category.
Merged(t, values) ==
    [t EXCEPT !.title = values.title, !.category = values.category]

\* The store answers updateDoc: the two fields of an existing document are
\* replaced; a missing document, or a refused call, is an error.
updateDoc(r) ==
    /\ r.kind = "update" /\ r.phase = "sent"
    /\ \/ /\ \E d \in store : d.id = r.id
          /\ requests' = Replace(r, [r EXCEPT !.phase = "ok"])
          /\ store' = { IF d.id = r.id
                        THEN Merged(d, [title |-> r.title, category |-> r.category])
                        ELSE d : d \in store }
       \/ /\ requests' = Replace(r, [r EXCEPT !.phase = "err"])
          /\ store' = store
    /\ Quiet
    /\ UNCHANGED << page, load, nextId, now, storeCalls, thumbnails, filterVars, dialogVars,
                    uploadVars, started >>

\* thumbnails.map(t => t.id === editingThumbnail.id ? { ...t, ...values } : t)
Edited(list, thumbnailId, values) ==
    [i \in 1..Len(list) |->
        IF list[i].id = thumbnailId THEN Merged(list[i], values) ELSE list[i]]

\* The list after onEditSubmit: set after the await, left alone in the catch.
ListAfterEdit(r) ==
    IF r.phase = "ok"
    THEN Edited(r.snap, r.id, [title |-> r.title, category |-> r.category])
    ELSE thumbnails

\* onEditSubmit after await updateDoc(...).
onEditSubmitDone(r) ==
    /\ r.kind = "update" /\ r.phase \in {"ok", "err"}
    /\ requests' = requests \ {r}
    /\ thumbnails' = ListAfterEdit(r)
    /\ IF r.phase = "ok"
       THEN /\ Raise("Success!", <<"Thumbnail details have been updated.">>)
            /\ EditDialogClosed
       ELSE /\ Raise("Update Failed",
                   <<"There was an error updating the thumbnail. Please try again.">>)
            /\ UNCHANGED << isEditDialogOpen, editingThumbnail >>
    /\ UNCHANGED << page, load, storeVars, filterVars, isUploadDialogOpen, uploadVars, started >>

(* ---------------------------- specification --------------------------- *)

\* The submissions of the upload form: a valid one for every file, and one
\* for every field left invalid.  The category is an item of the Select.
UploadValues ==
    { [title |-> <<"a", "a", "b">>, category |-> selectableCategories[1], image |-> <<f>>] :
        f \in Files }
    \cup { [title |-> <<"a", "b">>, category |-> selectableCategories[1], image |-> <<f>>] :
             f \in { g \in Files : g.size = 3 /\ g.readable } }
    \cup { [title |-> <<"a", "a", "b">>, category |-> Undefined, image |-> <<f>>] :
             f \in { g \in Files : g.size = 3 /\ g.readable } }
    \cup { [title |-> <<"a", "a", "b">>, category |-> selectableCategories[1], image |-> <<>>] }

\* The submissions of the edit form: two valid ones (one with a title of three
\* spaces), and one for every field left invalid.  The category is an item of the Select.
EditValues ==
    { [title |-> <<"A", "b", "a">>, category |-> selectableCategories[2]],
      [title |-> <<" ", " ", " ">>, category |-> selectableCategories[2]],
      [title |-> <<"a", "b">>,      category |-> selectableCategories[2]],
      [title |-> <<"A", "b", "a">>, category |-> Undefined] }

\* Steps of the user that change the view only.
View ==
    \/ \E term \in SearchTerms : setSearchTerm(term)
    \/ \E category \in FilterCategories : setActiveCategory(category)
    \/ openUploadDialog
    \/ handleUploadDialogClose
    \/ \E i \in 1..Len(filteredThumbnails) : handleEditDialogOpen(filteredThumbnails[i])
    \/ handleEditDialogClose

\* Steps of the user that submit a form or confirm a delete.
Submit ==
    \/ \E values \in UploadValues : uploadFormSubmit(values)
    \/ \E values \in EditValues : editFormSubmit(values)
    \/ \E i \in 1..Len(filteredThumbnails) : handleDelete(filteredThumbnails[i].id)

\* The store answers a call.
Store ==
    \/ getDocs
    \/ \E r \in requests : addDoc(r)
    \/ \E r \in requests : deleteDoc(r)
    \/ \E r \in requests : updateDoc(r)

\* A suspended handler goes on.
Resume ==
    \/ fetchThumbnails
    \/ \E r \in requests : onUploadSubmitEncoded(r)
    \/ \E r \in requests : onUploadSubmitDone(r)
    \/ \E r \in requests : handleDeleteDone(r)
    \/ \E r \in requests : onEditSubmitDone(r)

Next == View \/ Submit \/ Store \/ Resume

Spec == Init /\ [][Next]_vars

\* No handler is suspended: the load is over and every request is finished.
Idle == load.phase \in {"done", "failed"} /\ requests = {}

\* A session in which an operation is started only when the one before it,
\* the initial load included, is finished.
NextSeq == View \/ (Idle /\ Submit) \/ Store \/ Resume

SpecSeq == Init /\ [][NextSeq]_vars

\* fetchThumbnails has finished.
LoadOver == load.phase \in {"done", "failed"}

\* A session in which the user submits nothing before the initial load is
\* over; the requests themselves overlap freely.
NextLoaded == View \/ (LoadOver /\ Submit) \/ Store \/ Resume

SpecLoaded == Init /\ [][NextLoaded]_vars

\* Files whose data URIs lie around MAX_DOC_SIZE_BYTES: 22 bytes (png),
\* 1,000,000 (pjpeg), 1,048,487 (jpeg), 1,048,488 (pjpeg), 1,100,000 (pjpeg);
\* and a file the FileReader cannot read.
GateFiles ==
    { [size |-> 3,      type |-> "image/png",   readable |-> TRUE],
      [size |-> 749982, type |-> "image/pjpeg", readable |-> TRUE],
      [size |-> 786348, type |-> "image/jpeg",  readable |-> TRUE],
      [size |-> 786348, type |-> "image/pjpeg", readable |-> TRUE],
      [size |-> 824982, type |-> "image/pjpeg", readable |-> TRUE],
      [size |-> 3,      type |-> "image/png",   readable |-> FALSE] }

\* The values onUploadSubmit is called with when it is called directly.
HandlerValues ==
    { [title |-> <<"a", "a", "b">>, category |-> "Gaming", image |-> <<f>>] : f \in GateFiles }
    \cup { [title |-> <<"a", "a", "b">>, category |-> "Gaming", image |-> <<>>] }

\* The create handler called directly, as a caller of the function may call
\* it: neither the form's validation nor the disabled submit button stands
\* between the caller and onUploadSubmit.
NextHandlers ==
    \/ getDocs
    \/ fetchThumbnails
    \/ \E values \in HandlerValues : onUploadSubmit(values)
    \/ \E r \in requests : onUploadSubmitEncoded(r)
    \/ \E r \in requests : addDoc(r)
    \/ \E r \in requests : onUploadSubmitDone(r)

SpecHandlers == Init /\ [][NextHandlers]_vars

\* The edit dialog and its handler called directly: handleEditDialogOpen from
\* a card of the grid, handleEditDialogClose from the dialog's onOpenChange,
\* and onEditSubmit with values that pass editSchema, whether or not the
\* dialog is open, so that its first line decides with and without a target.
NextEdit ==
    \/ getDocs
    \/ fetchThumbnails
    \/ \E i \in 1..Len(filteredThumbnails) : handleEditDialogOpen(filteredThumbnails[i])
    \/ handleEditDialogClose
    \/ \E values \in { v \in EditValues : editSchema(v) = {} } : onEditSubmit(values)
    \/ \E r \in requests : updateDoc(r)
    \/ \E r \in requests : onEditSubmitDone(r)

SpecEdit == Init /\ [][NextEdit]_vars


(* ------------------------------- claims ------------------------------- *)

\* The step finishes the handler r: r is suspended before it and no longer a
\* request after it.
Finishes(r) == r \in requests /\ \A q \in requests' : q.rid # r.rid

\* The record a create request gives once the store has acknowledged it.
NewThumbnail(r) ==
    [id |-> r.id, title |-> r.title, category |-> r.category,
     imageUrl |-> r.imageUrl, createdAt |-> r.createdAt]

Ids(list) == { list[i].id : i \in 1..Len(list) }

\* C1: when an acknowledged create is processed, the new record is at index 0
\* of the list, exactly once, and the list as it was just before follows it,
\* every record shifted by one position and unchanged.
C1_CreateAckPrepends ==
    [][ \A r \in requests :
          (r.kind = "create" /\ r.phase = "ok" /\ Finishes(r))
          => /\ thumbnails' = <<NewThumbnail(r)>> \o thumbnails
             /\ r.id \notin Ids(thumbnails) ]_vars

\* C2: a file whose data URI is longer than MAX_DOC_SIZE_BYTES never gets as
\* far as an insert: no create request that has issued addDoc, and no document
\* of the store, carries an imageUrl of more than MAX_DOC_SIZE_BYTES bytes.
C2_NoOversizedInsert ==
    /\ \A r \in requests :
          (r.kind = "create" /\ r.phase # "reading")
          => getByteLength(r.imageUrl) <= MAX_DOC_SIZE_BYTES
    /\ \A d \in store : getByteLength(d.imageUrl) <= MAX_DOC_SIZE_BYTES

\* C3: when an acknowledged delete of id X is processed, the list loses the
\* record with id X and nothing else: the other records of the list as it was
\* just before stay, in the same order.
C3_DeleteAckRemovesOnlyTarget ==
    [][ \A r \in requests :
          (r.kind = "delete" /\ r.phase = "ok" /\ Finishes(r))
          => thumbnails' = SelectSeq(thumbnails, LAMBDA t : t.id # r.id) ]_vars


\* Two records of one id carry the same image and the same creation time.
SameImage(a, b) == a.imageUrl = b.imageUrl /\ a.createdAt = b.createdAt

UpdatedToast == Toast("Success!", <<"Thumbnail details have been updated.">>)

\* C4: an update changes neither the imageUrl nor the createdAt nor the id of
\* its target, in the store or in the list: across every step a document keeps
\* them, a record of the list keeps them and agrees with the document of its
\* id, and the list an acknowledged update leaves has, position by position,
\* the ids, images and creation times of the list the handler mapped.
C4_UpdateKeepsImageAndCreatedAt ==
    [][ /\ \A d \in store, e \in store' : d.id = e.id => SameImage(d, e)
        /\ \A i \in 1..Len(thumbnails), j \in 1..Len(thumbnails') :
              thumbnails[i].id = thumbnails'[j].id
              => SameImage(thumbnails[i], thumbnails'[j])
        /\ \A j \in 1..Len(thumbnails'), e \in store' :
              thumbnails'[j].id = e.id => SameImage(thumbnails'[j], e)
        /\ \A r \in requests :
              (r.kind = "update" /\ r.phase = "ok" /\ Finishes(r))
              => /\ Len(thumbnails') = Len(r.snap)
                 /\ \A i \in 1..Len(r.snap) :
                       /\ thumbnails'[i].id = r.snap[i].id
                       /\ SameImage(thumbnails'[i], r.snap[i]) ]_vars

\* An acknowledged update of document 1 has been processed: its title and
\* category are the submitted ones in the list and in the store, its image
\* and creation time the original ones.
C4_Witness ==
    /\ toasts = << UpdatedToast >>
    /\ \E i \in 1..Len(thumbnails) :
          /\ thumbnails[i].id = 1
          /\ thumbnails[i].category = "Vlog"
          /\ thumbnails[i].createdAt = 1
          /\ thumbnails[i].imageUrl.payload = 4
          /\ thumbnails[i] \in store

\* C5: a create that fails (the file cannot be read, the size gate rejects
\* it, or the store rejects the insert) leaves the list as it is.
C5_FailedCreateKeepsList ==
    [][ \A r \in requests :
          (r.kind = "create" /\ r.phase \in {"reading", "err"} /\ Finishes(r))
          => thumbnails' = thumbnails ]_vars

\* A create has just failed while the list held the two loaded records.
C5_Witness ==
    /\ Len(toasts) = 1
    /\ toasts[1].title = "Upload Failed"
    /\ Len(thumbnails) = 2
    /\ ~isUploading

\* C6: when the store rejects an update or a delete, the list is left as it
\* is and exactly one notification, "Update Failed" or "Delete Failed", is
\* raised.
C6_RejectedUpdateDeleteKeepsList ==
    [][ \A r \in requests :
          (r.kind \in {"update", "delete"} /\ r.phase = "err" /\ Finishes(r))
          => /\ thumbnails' = thumbnails
             /\ Len(toasts') = 1
             /\ toasts'[1].title =
                   (IF r.kind = "update" THEN "Update Failed" ELSE "Delete Failed") ]_vars

\* A delete has just been rejected and both loaded records are still listed.
C6_Witness ==
    /\ Len(toasts) = 1
    /\ toasts[1].title = "Delete Failed"
    /\ Ids(thumbnails) = {1, 2}
    /\ { d.id : d \in store } = {1, 2}

\* C7 (under SpecSeq): after a successful load, and whenever no operation is
\* unfinished, the list holds exactly the documents of the store, newest
\* first.
C7_SequentialListIsStoreNewestFirst ==
    (Idle /\ load.phase = "done")
    => /\ { thumbnails[i] : i \in 1..Len(thumbnails) } = store
       /\ Len(thumbnails) = Cardinality(store)
       /\ \A i, j \in 1..Len(thumbnails) :
             i < j => thumbnails[i].createdAt > thumbnails[j].createdAt

\* The scenario of the claim: the load gave [2, 1], a create gave [3, 2, 1],
\* the delete of 2 gave [3, 1].
C7_Witness ==
    /\ Idle /\ load.phase = "done"
    /\ Len(thumbnails) = 2
    /\ thumbnails[1].id = 3
    /\ thumbnails[2].id = 1

\* lowercase(title) contains lowercase(term): some window of the title equals
\* the term, character by character, case ignored.
TitleMatches(title, term) ==
    \E k \in 0..Len(title) :
       /\ k + Len(term) <= Len(title)
       /\ \A j \in 1..Len(term) : LowerChar(title[k + j]) = LowerChar(term[j])

\* The record is shown under the active category and the search term.
Shown(t) ==
    /\ activeCategory = "All" \/ t.category = activeCategory
    /\ TitleMatches(t.title, searchTerm)

\* The positions of the list whose records are shown.
ShownAt == { i \in 1..Len(thumbnails) : Shown(thumbnails[i]) }

\* C8: the filtered view is the subsequence of the list made of the records
\* that are of the active category (any, under "All") and whose title contains
\* the search term, case ignored: its k-th record is the record at the k-th
\* shown position.  With the empty term every record of the category is shown.
C8_FilteredViewIsMatchingSubsequence ==
    /\ Len(filteredThumbnails) = Cardinality(ShownAt)
    /\ \A i \in ShownAt :
          filteredThumbnails[Cardinality({ j \in ShownAt : j <= i })] = thumbnails[i]
    /\ searchTerm = <<>>
       => \A i \in 1..Len(thumbnails) :
             (activeCategory = "All" \/ thumbnails[i].category = activeCategory)
             => i \in ShownAt

\* Both predicates bite: under "Gaming" and "BA" the list has a record of
\* another category, a Gaming record whose title lacks the term, and a Gaming
\* record whose title has it in another case.
C8_Witness ==
    /\ activeCategory = "Gaming"
    /\ searchTerm = <<"B", "A">>
    /\ Len(filteredThumbnails) >= 1
    /\ \E i \in 1..Len(thumbnails) :
          thumbnails[i].category = "Gaming" /\ thumbnails[i].title = <<"a", "a", "b">>
    /\ \E i \in 1..Len(thumbnails) :
          thumbnails[i].category = "Vlog" /\ thumbnails[i].title = <<"A", "b", "a">>
    /\ \E i \in 1..Len(thumbnails) :
          thumbnails[i].category = "Gaming" /\ thumbnails[i].title = <<"A", "b", "a">>

\* C9: filtering the filtered view again by the same category and term gives
\* the filtered view, and filtering by "All" and the empty term gives the list.
C9_FilterIdempotentWithIdentity ==
    /\ FilterList(filteredThumbnails, activeCategory, searchTerm) = filteredThumbnails
    /\ FilterList(thumbnails, "All", <<>>) = thumbnails

\* A filter that keeps some records and drops others.
C9_Witness ==
    /\ activeCategory = "Gaming"
    /\ searchTerm = <<"B", "A">>
    /\ Len(filteredThumbnails) >= 1
    /\ Len(filteredThumbnails) < Len(thumbnails)

\* C10: the list changes only in the step that processes a positive answer of
\* the store (the result of the load, or the acknowledgment of an insert, an
\* update or a delete); the step that issues a request leaves it alone; and
\* when the handler of a delete removes its target, the store has deleted it.
C10_ListChangesOnlyOnAck ==
    [][ /\ thumbnails' # thumbnails
           => \/ load.phase = "ok" /\ load'.phase = "done"
              \/ \E r \in requests : r.phase = "ok" /\ Finishes(r)
        /\ (started' # started \/ storeCalls' # storeCalls)
           => thumbnails' = thumbnails
        /\ \A r \in requests :
              (/\ r.kind = "delete" /\ Finishes(r)
               /\ r.id \in Ids(thumbnails) /\ r.id \notin Ids(thumbnails'))
              => r.phase = "ok" /\ \A d \in store : d.id # r.id ]_vars

\* The store has deleted a document and the list still shows it: the
\* acknowledgment has not been processed yet.
C10_Witness ==
    \E r \in requests :
       /\ r.kind = "delete" /\ r.phase = "ok"
       /\ r.id \in Ids(thumbnails)
       /\ \A d \in store : d.id # r.id

\* C11: the list is always ordered by createdAt, newest first: no record is
\* followed by a record with a later createdAt, whatever loads, creates,
\* updates and deletes have been processed and however they overlapped.
C11_ListNewestFirst ==
    \A i, j \in 1..Len(thumbnails) :
       i < j => thumbnails[i].createdAt >= thumbnails[j].createdAt

\* A create has just been prepended to the two loaded records.
C11_Witness ==
    /\ toasts = << Toast("Success!", <<"Thumbnail has been added.">>) >>
    /\ Len(thumbnails) = 3
    /\ thumbnails[1].createdAt > thumbnails[2].createdAt
    /\ thumbnails[2].createdAt > thumbnails[3].createdAt

UriLength(r) == getByteLength(toBase64(r.file))

\* C14 (part_001, the handler called directly): when the handler has the data
\* URI of a readable file, a URI of at most 1,048,487 bytes goes on to one
\* store insert, and a URI of 1,048,488 bytes or more ends the handler without
\* a store call, with an "Upload Failed" whose description has "too large".
C14_GateAcceptsUpToCeiling ==
    [][ \A r \in requests :
          (/\ page = "part_001"
           /\ r.kind = "create" /\ r.phase = "reading" /\ r.file.readable
           /\ r \notin requests')
          => IF UriLength(r) <= 1048487
             THEN /\ \E q \in requests' :
                        q.rid = r.rid /\ q.phase = "sent" /\ q.imageUrl = toBase64(r.file)
                  /\ storeCalls' = storeCalls + 1
                  /\ toasts' = <<>>
             ELSE /\ Finishes(r)
                  /\ storeCalls' = storeCalls
                  /\ store' = store
                  /\ Len(toasts') = 1
                  /\ toasts'[1].title = "Upload Failed"
                  /\ MessageIncludes(toasts'[1].description, "too large") ]_vars

\* A data URI of exactly 1,048,487 bytes has been sent to the store, and one
\* of 1,048,488 bytes or more has just been refused.
C14_Witness ==
    /\ page = "part_001"
    /\ \E r \in requests :
          /\ r.kind = "create" /\ r.phase = "sent"
          /\ getByteLength(r.imageUrl) = 1048487
    /\ toasts = << Toast("Upload Failed", TooLargeError.message) >>

\* C13 (part_001): a file of 734,004 bytes or more fails the validation of the
\* upload form and a file of 734,003 bytes or less passes it; so no create
\* handler is ever started for a file over 734,003 bytes (toBase64 is not
\* called for it) and no document of the store carries the image of one.
C13_PreEncodingCeiling ==
    page = "part_001"
    => /\ \A values \in UploadValues :
             Len(values.image) = 1
             => ("image" \in uploadSchema(values) <=> values.image[1].size >= 734004)
       /\ \A r \in requests : r.kind = "create" => r.file.size <= 734003
       /\ \A d \in store : d.imageUrl.payload <= 4 * ((734003 + 2) \div 3)

\* The file of 734,003 bytes has passed the form, has been encoded, and its
\* insert has been issued.
C13_Witness ==
    /\ page = "part_001"
    /\ \E r \in requests :
          r.kind = "create" /\ r.phase = "sent" /\ r.file.size = 734003

LoadingFailedToast ==
    Toast("Loading Failed",
          <<"Could not fetch thumbnails. Make sure Firestore is set up correctly.">>)

\* C15: the step that handles a failed load leaves the list as it is (empty,
\* when no create was acknowledged in the meantime), raises exactly the
\* "Loading Failed" notification and issues no store call; from then on the
\* load stays failed, no query is issued for it again, and no document that
\* was in the store at the start ever enters the list.
C15_LoadFailureLeavesListEmpty ==
    [][ /\ (load.phase = "err" /\ load' # load)
           => /\ load'.phase = "failed"
              /\ thumbnails' = thumbnails
              /\ started = 0 => thumbnails' = <<>>
              /\ toasts' = << LoadingFailedToast >>
              /\ storeCalls' = storeCalls
              /\ requests' = requests
        /\ load.phase = "failed"
           => /\ load' = load
              /\ Ids(thumbnails') \cap { d.id : d \in InitialDocs } = {}
              /\ \A i \in 1..Len(toasts') : toasts'[i] # LoadingFailedToast ]_vars

\* The load has just failed: the notification is up, the list is empty, the
\* store still has its documents and the only store call was the query.
C15_Witness ==
    /\ load.phase = "failed"
    /\ toasts = << LoadingFailedToast >>
    /\ thumbnails = <<>>
    /\ store = InitialDocs
    /\ storeCalls = 1

\* The seven categories of a record.
RecordCategories ==
    {"Gaming", "Vlog", "Tutorial", "Lifestyle", "Tech", "Cooking", "Education"}

\* C16: the category Selects offer exactly the seven categories, and every
\* document of the store, and every create or update sent to the store, has
\* one of them as its category, never "All".
C16_WrittenCategoryIsOneOfSeven ==
    /\ { selectableCategories[i] : i \in 1..Len(selectableCategories) } = RecordCategories
    /\ \A d \in store : d.category \in RecordCategories
    /\ \A r \in requests :
          (r.kind \in {"create", "update"} /\ r.phase \in {"sent", "ok"})
          => r.category \in RecordCategories

\* A create and an update have both been written: document 1 carries the
\* category chosen in the edit form and document 3 the one of the upload form.
C16_Witness ==
    /\ \E d \in store : d.id = 1 /\ d.category = "Vlog"
    /\ \E d \in store : d.id = 3 /\ d.category = "Gaming"

\* The values lack something the forms require.
Incomplete(values) ==
    \/ Len(values.title) < 3
    \/ values.category = Undefined

\* C17: a submission with a title of fewer than 3 characters, with no
\* category or (for a create) with no image fails the validation of its form,
\* and a title of three spaces passes; so no handler is ever started and no
\* store call issued for such values, and every title of a request and of a
\* document has at least 3 characters.
C17_ShortTitleNeverWritten ==
    /\ \A values \in UploadValues :
          (Incomplete(values) \/ Len(values.image) = 0) => uploadSchema(values) # {}
    /\ \A values \in EditValues :
          /\ Incomplete(values) => editSchema(values) # {}
          /\ values.title = <<" ", " ", " ">> => ~Incomplete(values) /\ editSchema(values) = {}
    /\ \A r \in requests :
          /\ r.kind \in {"create", "update"} => Len(r.title) >= 3 /\ r.category # Undefined
          /\ r.kind = "create" => r.file # Null
    /\ \A d \in store : Len(d.title) >= 3

\* An update whose title is three spaces has been written to the store.
C17_Witness ==
    \E d \in store : d.id = 1 /\ d.title = <<" ", " ", " ">>

\* C18: when an acknowledged update is processed, the list keeps its length,
\* the record with the target id stays at its index with the submitted title
\* and category, and every other record is as it was in the list just before.
C18_UpdateAckReplacesInPlace ==
    [][ \A r \in requests :
          (r.kind = "update" /\ r.phase = "ok" /\ Finishes(r))
          => /\ Len(thumbnails') = Len(thumbnails)
             /\ \A i \in 1..Len(thumbnails) :
                   thumbnails'[i] =
                      IF thumbnails[i].id = r.id
                      THEN [thumbnails[i] EXCEPT !.title = r.title, !.category = r.category]
                      ELSE thumbnails[i] ]_vars

\* What the list and the store are compared on: id, title and category.
Shows(t) == [id |-> t.id, title |-> t.title, category |-> t.category]

\* C19 (requests issued after the load, overlapping freely): once the load
\* has succeeded and every request has been acknowledged or rejected and
\* processed, the list holds exactly the documents of the store, each once,
\* with the title and the category the store has for it.
C19_QuiescentListMatchesStore ==
    (load.phase = "done" /\ requests = {})
    => /\ { Shows(thumbnails[i]) : i \in 1..Len(thumbnails) } = { Shows(d) : d \in store }
       /\ Len(thumbnails) = Cardinality(store)

GenericUploadDescription ==
    <<"There was an error uploading your thumbnail. Please try again.">>

DatabaseUploadDescription ==
    <<"Error communicating with the database. Please check your connection and Firestore setup.">>

TooLargeDescription ==
    <<"The selected image is ", "too large",
      " (over 1MB after encoding). Please choose a smaller file.">>

\* C20 (part_001): a failed create raises exactly one "Upload Failed".  Its
\* description is the error's own message when that has "too large" (also
\* when it names Firestore as well), else the database message when it has
\* "firestore" in any case, else the generic message; a thrown value that is
\* no Error (a failed file read) gets the generic message.
C20_UploadFailedDescriptionPriority ==
    [][ page = "part_001"
        => /\ UploadFailedDescription(TooLargeError) = TooLargeDescription
           /\ UploadFailedDescription(
                 Error(<<"Firestore", ": the document is ", "too large", ".">>))
                 = <<"Firestore", ": the document is ", "too large", ".">>
           /\ UploadFailedDescription(Error(<<"Firestore", " is unavailable.">>))
                 = DatabaseUploadDescription
           /\ UploadFailedDescription(Error(<<"Missing or insufficient permissions.">>))
                 = GenericUploadDescription
           /\ UploadFailedDescription(ReadError) = GenericUploadDescription
           /\ \A r \in requests :
                 (r.kind = "create" /\ r.phase \in {"reading", "err"} /\ Finishes(r))
                 => /\ Len(toasts') = 1
                    /\ toasts'[1].title = "Upload Failed"
                    /\ toasts'[1].description \in
                          IF r.phase = "err"
                          THEN { GenericUploadDescription, DatabaseUploadDescription,
                                 <<"Firestore", ": the document is ", "too large", ".">> }
                          ELSE IF r.file.readable
                          THEN { TooLargeDescription }
                          ELSE { GenericUploadDescription } ]_vars

\* The store has rejected an insert with an error that names Firestore and
\* says "too large": the notification carries the error's own message.
C20_Witness ==
    /\ page = "part_001"
    /\ toasts = << Toast("Upload Failed",
                          <<"Firestore", ": the document is ", "too large", ".">>) >>

\* The record with the given id in a list, in a set (empty when it is absent).
RecordOf(list, id) == { list[i] : i \in { k \in 1..Len(list) : list[k].id = id } }

\* C21: a request that has been issued is never dropped: whatever the user
\* does to the dialogs, a request goes away only in the step that processes
\* the store's answer to it; a step that closes a dialog without processing
\* an answer leaves every request and the store as they are; and the step
\* that processes an acknowledgment applies its mutation whether the dialog
\* is open or closed: the created record is at the head of the list, the
\* updated record of the handler's list carries the submitted title and
\* category, the deleted record is not in the list.
C21_NoCancellation ==
    [][ /\ \A r \in requests :
              \/ \E q \in requests' : q.rid = r.rid
              \/ r.phase \in {"ok", "err"}
              \/ r.kind = "create" /\ r.phase = "reading"
                   /\ toasts' = << Toast("Upload Failed", UploadFailedDescription(
                                     IF r.file.readable THEN TooLargeError ELSE ReadError)) >>
        /\ ((isUploadDialogOpen /\ ~isUploadDialogOpen') \/ (isEditDialogOpen /\ ~isEditDialogOpen'))
           => \/ requests' = requests /\ store' = store /\ storeCalls' = storeCalls
              \/ \E r \in requests : r.phase = "ok" /\ Finishes(r)
        /\ \A r \in requests :
              (r.phase = "ok" /\ Finishes(r))
              => CASE r.kind = "create" ->
                        Len(thumbnails') >= 1 /\ thumbnails'[1] = NewThumbnail(r)
                   [] r.kind = "update" ->
                        \A t \in RecordOf(thumbnails', r.id) :
                           t.title = r.title /\ t.category = r.category
                   [] r.kind = "delete" ->
                        r.id \notin Ids(thumbnails') ]_vars

\* Both dialogs were closed while their requests were in flight, and the
\* store has acknowledged the create and the update since.
C21_Witness ==
    /\ ~isUploadDialogOpen
    /\ ~isEditDialogOpen
    /\ \E r \in requests : r.kind = "create" /\ r.phase = "ok"
    /\ \E r \in requests : r.kind = "update" /\ r.phase = "ok"

\* C22: a step that changes the active category or the search term leaves the
\* list, the store, the requests and the load as they are and issues no store
\* call; the filtered view after it is the filter of the same list.
C22_FilterChangeTouchesOnlyView ==
    [][ (activeCategory' # activeCategory \/ searchTerm' # searchTerm)
        => /\ thumbnails' = thumbnails
           /\ store' = store
           /\ storeCalls' = storeCalls
           /\ requests' = requests
           /\ load' = load
           /\ filteredThumbnails' = FilterList(thumbnails, activeCategory', searchTerm') ]_vars

\* The category "Gaming" is active over the two loaded records: the view has
\* one record, the list both, and the only store call was the query.
C22_Witness ==
    /\ activeCategory = "Gaming"
    /\ searchTerm = <<>>
    /\ Len(thumbnails) = 2
    /\ Len(filteredThumbnails) = 1
    /\ storeCalls = 1

\* C23 (requests issued after the load): a record whose delete the store has
\* acknowledged and which has been removed from the list does not come back:
\* no step puts into the list a record that is neither in the list before
\* the step nor in the store.
C23_DeletedRecordStaysOut ==
    [][ \A j \in 1..Len(thumbnails') :
          \/ thumbnails'[j].id \in Ids(thumbnails)
          \/ \E d \in store' : d.id = thumbnails'[j].id ]_vars

\* C24: the only handler of the session is a create, which the store has
\* acknowledged (document 3), and the load has succeeded.  Once both the load
\* result and the acknowledgment have been processed, the list has the created
\* record and the records the load returned (documents 1 and 2), whether the
\* create ran after the load or overlapped it.
C24_CreateOverlappingLoadKeepsBoth ==
    (/\ load.phase = "done"
     /\ requests = {}
     /\ started = 1
     /\ \E d \in store : d.id = 3)
    => {1, 2, 3} \subseteq Ids(thumbnails)

\* The create handlers that have not finished.
CreatesInFlight == { r \in requests : r.kind = "create" }

\* C25: at most one create is in flight at any time, and isUploading is true
\* as long as it is, which keeps the submit button of the upload form
\* disabled.
C25_AtMostOneCreateInFlight ==
    /\ Cardinality(CreatesInFlight) <= 1
    /\ CreatesInFlight # {} => isUploading

\* A create is in flight, the upload dialog is open on a form a second submit
\* could come from, and the session could still start a handler.
C25_Witness ==
    /\ Cardinality(CreatesInFlight) = 1
    /\ isUploadDialogOpen
    /\ isUploading
    /\ CanStart

\* C26: isUploading is true only while a create handler has not finished, and
\* the step that ends a create handler - it succeeded, the file could not be
\* read, the size gate refused it, or the store rejected the insert - leaves
\* isUploading false and uploadProgress 0.
C26_UploadingFlagFollowsCreate ==
    [][ /\ isUploading' => \E r \in requests' : r.kind = "create"
        /\ \A r \in requests :
              (r.kind = "create" /\ Finishes(r))
              => /\ r.phase \in {"reading", "ok", "err"}
                 /\ ~isUploading'
                 /\ uploadProgress' = 0 ]_vars

\* The size gate has just refused the only create of the session: nothing is
\* in flight, the flag is down and the progress bar is at 0.
C26_Witness ==
    /\ page = "part_001"
    /\ toasts = << Toast("Upload Failed", TooLargeDescription) >>
    /\ requests = {}
    /\ started = 1
    /\ ~isUploading
    /\ uploadProgress = 0

\* A readable file of n bytes whose MIME type has m characters.
FileOf(n, m) == [size |-> n, type |-> [i \in 1..m |-> "x"], readable |-> TRUE]

\* A file whose MIME type has 100 characters.
LongestTypeFile == FileOf(0, 100)

\* The file passes the validation of the upload form.
PassesUploadForm(file) ==
    uploadSchema([title |-> <<"a", "a", "b">>, category |-> "Gaming", image |-> <<file>>]) = {}

\* The state before anything has happened; what does not depend on the state
\* is evaluated there.
AtStart ==
    /\ started = 0 /\ load.phase = "sent" /\ toasts = <<>>
    /\ ~isUploadDialogOpen /\ ~isEditDialogOpen
    /\ activeCategory = "All" /\ searchTerm = <<>>

\* C27 (part_001): every file that passes the validation of the upload form
\* has a data URI of at most 1,048,487 bytes.  For every size n up to 734,003
\* and a MIME type of 100 characters (and of 0 and 9 at the ends of the range)
\* the file passes, and its URI has 13 + |mime| + 4 * ceil(n / 3) bytes, at
\* most 1,048,487; so no create handler ever holds a file the gate refuses,
\* and the gate's "too large" notification is never raised.
C27_PreCheckImpliesPostCheck ==
    page = "part_001"
    => /\ AtStart
          => /\ \A n \in 0..734003 :
                   LET file == [LongestTypeFile EXCEPT !.size = n]
                       length == getByteLength(toBase64(file))
                   IN  /\ PassesUploadForm(file)
                       /\ length = 13 + 100 + 4 * ((n + 2) \div 3)
                       /\ length <= 1048487
             /\ \A n \in {0, 1, 2, 3, 4, 734002, 734003}, m \in {0, 9, 100} :
                   /\ PassesUploadForm(FileOf(n, m))
                   /\ getByteLength(toBase64(FileOf(n, m))) = 13 + m + 4 * ((n + 2) \div 3)
                   /\ getByteLength(toBase64(FileOf(n, m))) <= 1048487
       /\ \A r \in requests :
             r.kind = "create"
             => PassesUploadForm(r.file) /\ ~exceedsDocSize(toBase64(r.file))
       /\ toasts # << Toast("Upload Failed", TooLargeDescription) >>

\* The largest file the form lets through has been encoded and stored: its
\* data URI has 978,694 bytes.
C27_Witness ==
    /\ page = "part_001"
    /\ \E d \in store :
          d.imageUrl.payload = 4 * ((734003 + 2) \div 3) /\ getByteLength(d.imageUrl) = 978694

\* C28: no two records of the list have the same id, whatever load results
\* and acknowledgments have been processed and in whatever order.
C28_NoDuplicateIds ==
    \A i, j \in 1..Len(thumbnails) :
       thumbnails[i].id = thumbnails[j].id => i = j

\* A create was acknowledged and processed while the query was outstanding,
\* the query was answered after the insert, and its result, which has the
\* created record too, has been processed: the list has documents 3, 2, 1.
C28_Witness ==
    /\ load.phase = "done"
    /\ started = 1
    /\ requests = {}
    /\ Len(thumbnails) = 3
    /\ thumbnails[1].id = 3
    /\ toasts = <<>>

UpdateFailedToast ==
    Toast("Update Failed",
          <<"There was an error updating the thumbnail. Please try again.">>)

\* C29: the edit dialog is open exactly when an editing target is set; a step
\* taken with no editing target before and after it that is neither of the
\* load nor the answer or continuation of an earlier update, which an edit
\* submission without a target is, starts no handler, issues no store call and
\* changes neither the store, the list nor the dialog; and the step that processes a
\* failed update leaves the dialog and its target as they were, open with the
\* target when the dialog was open.
C29_EditDialogTracksTarget ==
    [][ /\ isEditDialogOpen <=> editingThumbnail # Null
        /\ isEditDialogOpen' <=> editingThumbnail' # Null
        /\ (/\ editingThumbnail = Null /\ editingThumbnail' = Null
            /\ load' = load
            /\ requests \subseteq requests')
           => /\ requests' = requests
              /\ started' = started
              /\ storeCalls' = storeCalls
              /\ store' = store
              /\ thumbnails' = thumbnails
              /\ isEditDialogOpen' = isEditDialogOpen
              /\ toasts' = <<>>
        /\ \A r \in requests :
              (r.kind = "update" /\ r.phase = "err" /\ Finishes(r))
              => /\ isEditDialogOpen' = isEditDialogOpen
                 /\ editingThumbnail' = editingThumbnail
                 /\ isEditDialogOpen => (isEditDialogOpen' /\ editingThumbnail' # Null)
                 /\ thumbnails' = thumbnails
                 /\ toasts' = << UpdateFailedToast >>
      ]_vars

\* A failed update has just been processed with the dialog open on the record
\* the update was for, and the list still shows that record unedited.
C29_Witness ==
    /\ toasts = << UpdateFailedToast >>
    /\ isEditDialogOpen
    /\ editingThumbnail # Null
    /\ \E i \in 1..Len(thumbnails) : thumbnails[i] = editingThumbnail
    /\ requests = {}

=============================================================================
